---- MODULE Spec2Model ----
(***************************************************************************)
(* Scheduler (services/scheduler.ts, routes/schedules.ts), Execution       *)
(* Engine (services/executor.ts) and Artifact Store (services/             *)
(* fileSystem.ts, routes/functions.ts) of the serverless function platform.*)
(*                                                                         *)
(* The controller is one single-threaded Node.js process: every handler    *)
(* below runs to completion before the next event is taken.  The child     *)
(* processes, the clock, the disk and the cron timers are the environment. *)
(***************************************************************************)
EXTENDS Integers, Sequences, FiniteSets, TLC

\* ------------------------------------------------------------------ bounds
MaxClock == 2      \* greatest value Date.now() takes; schedule ids are 1..MaxClock
MaxRecords == 2    \* greatest number of records kept in schedules.json
MaxInv == 2        \* number of invocations that can be in flight together

\* ------------------------------------------------------------- value sets
FnNames == {"f", "g"}
Inputs == {"a", "b"}
ValidCron == "* * * * *"
BadCron == "61 * *"
CronExprs == {ValidCron, BadCron}
Ids == 1..MaxClock
InvIds == 1..MaxInv

NoInput == "noinput"
NoScript == [input |-> NoInput, exe |-> "none"]   \* no file at the path
NoResult == [exitCode |-> -1, error |-> "", result |-> ""]
NoOrigin == 0

\* one bootstrap script path for every function
tmpScriptPathShared(functionName) == "tmp/exec.mjs"

\* tmpScriptPath of executeFunction, relative to process.cwd()
tmpScriptPath(functionName) == "tmp/" \o functionName \o "_exec.mjs"
ScriptPaths == {tmpScriptPath(f) : f \in FnNames}

\* an upload slot with no POST /upload in it.  install: installDependencies
\* was called; npm, code, dir: how the npm process ended and whether
\* node_modules existed then; installOk, output, installError: the
\* dependencyInstallation part of the response
NoUpload ==
    [st |-> "none", ext |-> "", deps |-> FALSE, compiled |-> FALSE, status |-> 0,
     details |-> "", install |-> FALSE, npm |-> "none", code |-> 0, dir |-> FALSE,
     installOk |-> FALSE, output |-> "", installError |-> ""]

\* environment variable names and the value that stands for "not defined"
EnvNames == {"API_KEY", "NODE_OPTIONS", "NODE_PATH"}
Undef == "undefined"
NoEnv == [n \in EnvNames |-> Undef]

\* what a module can have under an export name: nothing, a function, a
\* truthy value that is no function (an object), a falsy value (0, null, "")
ExportKinds == {"absent", "function", "object", "zero"}
NoModule == [default |-> "absent", handler |-> "absent", main |-> "absent"]

NoProbe ==
    [kind |-> "none", proc |-> NoEnv, caller |-> NoEnv, fn |-> NoEnv,
     custom |-> FALSE, env |-> NoEnv, module |-> NoModule, entry |-> "",
     saved |-> <<>>, file |-> <<>>, loaded |-> <<>>,
     code |-> [tagged |-> FALSE, manifest |-> <<>>, statements |-> {}],
     dependencies |-> <<>>,
     logs |-> <<>>, value |-> "", output |-> <<>>, result |-> <<>>,
     payload |-> <<>>, literal |-> <<>>, received |-> <<>>]

VARIABLES
    ctl,              \* "down" | "running" | "crashed": the controller process
    now,              \* Date.now()
    fileExists,       \* schedules.json exists on disk
    schedulesFile,    \* content of schedules.json: a sequence of Schedule records
    activeSchedules,  \* the Map<string, ScheduledTask>: schedule id -> timer id
    timers,           \* running cron tasks: timer id -> the Schedule its callback closes over
    route,            \* position inside a route handler of routes/schedules.ts
    resp,             \* HTTP status of the last completed schedule route (0: none yet)
    fnJs,             \* function names that have a .js file in FUNCTIONS_DIR
    fnTs,             \* function names that have a .ts file in FUNCTIONS_DIR
    distJs,           \* function names that have a compiled .js in DIST_FUNCTIONS_DIR
    fnEnvFile,        \* function names that have a .env file in FUNCTIONS_DIR
    uploads,          \* POST /upload of <name>.ts: position and response, per name
    scripts,          \* the bootstrap scripts in tmp/: path -> content, or NoScript
    invs,             \* invocation slots of executeFunction
    probe             \* last evaluation of processEnv or of the entry point choice

schedVars == <<fileExists, schedulesFile, activeSchedules, timers, route, resp>>
artifacts == <<fnJs, fnTs, distJs, fnEnvFile>>
storeVars == <<artifacts, uploads>>
execVars == <<storeVars, scripts, invs, probe>>
vars == <<ctl, now, fileExists, schedulesFile, activeSchedules, timers, route, resp,
          fnJs, fnTs, distJs, fnEnvFile, uploads, scripts, invs, probe>>

\* route.op is "idle" between requests.  route.tag remembers, for schedule
\* route.id, that the last completed schedule request was its activate route
\* ("activated"), its deactivate route right after its activate route
\* ("actdeact") or its deactivate route otherwise ("deact"); inside the
\* activate route it tells that the id was in the registry before the call
\* of activateSchedule ("armed")
Idle == [op |-> "idle", id |-> 0, tag |-> ""]

\* an invocation slot that holds no invocation
FreeInv ==
    [st |-> "free", fn |-> "", input |-> NoInput, origin |-> NoOrigin,
     child |-> "none", childInput |-> NoInput, code |-> 0,
     timeoutArmed |-> FALSE, timedOut |-> FALSE, result |-> NoResult]

\* ------------------------------------------------------- helper operators
RECURSIVE SeqToSet(_)
SeqToSet(s) == IF s = <<>> THEN {} ELSE {Head(s)} \cup SeqToSet(Tail(s))

\* Array.prototype.findIndex: least index whose record has the id, 0 when none
findIndex(schedules, scheduleId) ==
    IF \E k \in 1..Len(schedules) : schedules[k].id = scheduleId
    THEN CHOOSE k \in 1..Len(schedules) :
            /\ schedules[k].id = scheduleId
            /\ \A j \in 1..(k - 1) : schedules[j].id # scheduleId
    ELSE 0

\* Array.prototype.filter(s => s.id !== scheduleId)
RECURSIVE filterOut(_, _)
filterOut(schedules, scheduleId) ==
    IF schedules = <<>> THEN <<>>
    ELSE IF Head(schedules).id = scheduleId
         THEN filterOut(Tail(schedules), scheduleId)
         ELSE <<Head(schedules)>> \o filterOut(Tail(schedules), scheduleId)

\* object spread  { ...record, ...updates }
Spread(record, updates) ==
    [k \in DOMAIN record |-> IF k \in DOMAIN updates THEN updates[k] ELSE record[k]]

\* cron.validate of node-cron on the expressions the model uses
cronValidate(expr) == expr = ValidCron

\* a new ScheduledTask object: the least timer id not in use
FreshTimer(tms) ==
    CHOOSE t \in 1..(Cardinality(DOMAIN tms) + 1) : t \notin DOMAIN tms

RemoveKey(f, k) == [x \in DOMAIN f \ {k} |-> f[x]]

\* ids of the persisted records whose active flag is true
PersistedActive == {r.id : r \in {x \in SeqToSet(schedulesFile) : x.active}}

\* --------------------------------------------------- scheduler.ts functions
\* loadSchedules: the parsed file, [] when the read or the parse throws
loadSchedules(readOk) ==
    IF fileExists /\ readOk THEN schedulesFile ELSE <<>>

\* saveSchedules: the file content afterwards and the boolean it returns
saveSchedules(schedules, writeOk) ==
    [file |-> IF writeOk THEN schedules ELSE schedulesFile,
     exists |-> fileExists \/ writeOk,
     ok |-> writeOk]

\* an activateSchedule without the activeSchedules.has(id) check
activateScheduleRearming(reg, tms, schedule) ==
    IF ~cronValidate(schedule.cronExpression)
    THEN [reg |-> reg, tms |-> tms, ok |-> FALSE]
    ELSE LET t == FreshTimer(tms)
         IN [reg |-> (schedule.id :> t) @@ reg,
             tms |-> tms @@ (t :> schedule),
             ok |-> TRUE]

\* activateSchedule on registry reg and running timers tms
activateSchedule(reg, tms, schedule) ==
    IF schedule.id \in DOMAIN reg
    THEN [reg |-> reg, tms |-> tms, ok |-> TRUE]
    ELSE IF ~cronValidate(schedule.cronExpression)
    THEN [reg |-> reg, tms |-> tms, ok |-> FALSE]
    ELSE LET t == FreshTimer(tms)
         IN [reg |-> reg @@ (schedule.id :> t),
             tms |-> tms @@ (t :> schedule),
             ok |-> TRUE]

\* a deactivateSchedule that forgets the task without stopping it
deactivateScheduleNoStop(reg, tms, scheduleId) ==
    IF scheduleId \in DOMAIN reg
    THEN [reg |-> RemoveKey(reg, scheduleId), tms |-> tms, ok |-> TRUE]
    ELSE [reg |-> reg, tms |-> tms, ok |-> FALSE]

\* deactivateSchedule: task.stop() and Map.delete
deactivateSchedule(reg, tms, scheduleId) ==
    IF scheduleId \in DOMAIN reg
    THEN [reg |-> RemoveKey(reg, scheduleId),
          tms |-> RemoveKey(tms, reg[scheduleId]),
          ok |-> TRUE]
    ELSE [reg |-> reg, tms |-> tms, ok |-> FALSE]

\* addSchedule: load, push, save (result ignored), activate when active
addSchedule(schedule, readOk, writeOk) ==
    LET schedules == loadSchedules(readOk)
        newSchedule == [id |-> now] @@ schedule
        saved == saveSchedules(Append(schedules, newSchedule), writeOk)
        act == IF newSchedule.active
               THEN activateSchedule(activeSchedules, timers, newSchedule)
               ELSE [reg |-> activeSchedules, tms |-> timers, ok |-> TRUE]
    IN [file |-> saved.file, exists |-> saved.exists,
        reg |-> act.reg, tms |-> act.tms, found |-> TRUE]

\* an updateSchedule that arms the updated record without stopping the task
\* of the record it replaces
updateScheduleRearming(reg, tms, scheduleId, updates, readOk, writeOk) ==
    LET schedules == loadSchedules(readOk)
        index == findIndex(schedules, scheduleId)
    IN IF index = 0
       THEN [file |-> schedulesFile, exists |-> fileExists,
             reg |-> reg, tms |-> tms, found |-> FALSE]
       ELSE LET updatedSchedule == Spread(schedules[index], updates)
                saved == saveSchedules([schedules EXCEPT ![index] = updatedSchedule],
                                       writeOk)
                act == IF updatedSchedule.active
                       THEN activateScheduleRearming(reg, tms, updatedSchedule)
                       ELSE [reg |-> reg, tms |-> tms, ok |-> TRUE]
            IN [file |-> saved.file, exists |-> saved.exists,
                reg |-> act.reg, tms |-> act.tms, found |-> TRUE]

\* updateSchedule on registry reg and timers tms (the routes call it after
\* activateSchedule / deactivateSchedule have already changed them)
updateSchedule(reg, tms, scheduleId, updates, readOk, writeOk) ==
    LET schedules == loadSchedules(readOk)
        index == findIndex(schedules, scheduleId)
    IN IF index = 0
       THEN [file |-> schedulesFile, exists |-> fileExists,
             reg |-> reg, tms |-> tms, found |-> FALSE]
       ELSE LET deact == IF scheduleId \in DOMAIN reg
                         THEN deactivateSchedule(reg, tms, scheduleId)
                         ELSE [reg |-> reg, tms |-> tms, ok |-> FALSE]
                updatedSchedule == Spread(schedules[index], updates)
                saved == saveSchedules([schedules EXCEPT ![index] = updatedSchedule],
                                       writeOk)
                act == IF updatedSchedule.active
                       THEN activateSchedule(deact.reg, deact.tms, updatedSchedule)
                       ELSE [reg |-> deact.reg, tms |-> deact.tms, ok |-> TRUE]
            IN [file |-> saved.file, exists |-> saved.exists,
                reg |-> act.reg, tms |-> act.tms, found |-> TRUE]

\* deleteSchedule: deactivate, load, filter, save; TRUE only when saved
deleteSchedule(scheduleId, readOk, writeOk) ==
    LET deact == IF scheduleId \in DOMAIN activeSchedules
                 THEN deactivateSchedule(activeSchedules, timers, scheduleId)
                 ELSE [reg |-> activeSchedules, tms |-> timers, ok |-> FALSE]
        schedules == loadSchedules(readOk)
        filteredSchedules == filterOut(schedules, scheduleId)
    IN IF Len(filteredSchedules) = Len(schedules)
       THEN [file |-> schedulesFile, exists |-> fileExists,
             reg |-> deact.reg, tms |-> deact.tms, found |-> FALSE]
       ELSE LET saved == saveSchedules(filteredSchedules, writeOk)
            IN [file |-> saved.file, exists |-> saved.exists,
                reg |-> deact.reg, tms |-> deact.tms, found |-> saved.ok]

\* initScheduler's forEach: activate every active record, in file order
RECURSIVE activateAll(_, _, _)
activateAll(reg, tms, schedules) ==
    IF schedules = <<>> THEN [reg |-> reg, tms |-> tms]
    ELSE LET s == Head(schedules)
             act == IF s.active THEN activateSchedule(reg, tms, s)
                    ELSE [reg |-> reg, tms |-> tms, ok |-> TRUE]
         IN activateAll(act.reg, act.tms, Tail(schedules))

\* ---------------------------------------------------------- initial state
\* Before the first start: no schedules file, no uploaded function, no timers
Init ==
    /\ ctl = "down"
    /\ now = 1
    /\ fileExists = FALSE
    /\ schedulesFile = <<>>
    /\ activeSchedules = <<>>
    /\ timers = <<>>
    /\ route = Idle
    /\ resp = 0
    /\ fnJs = {}
    /\ fnTs = {}
    /\ distJs = {}
    /\ fnEnvFile = {}
    /\ uploads = [f \in FnNames |-> NoUpload]
    /\ scripts = [p \in ScriptPaths |-> NoScript]
    /\ invs = [i \in InvIds |-> FreeInv]
    /\ probe = NoProbe

\* the memory of a controller process that is not running
MemoryGone ==
    /\ activeSchedules' = <<>>
    /\ timers' = <<>>
    /\ route' = Idle
    /\ resp' = 0
    /\ invs' = [i \in InvIds |-> FreeInv]
    /\ uploads' = [f \in FnNames |-> NoUpload]

\* --------------------------------------------------------- process events
\* Process start: initScheduler creates the file when absent, then loads it
\* and activates the active records
Boot(readOk) ==
    /\ ctl \in {"down", "crashed"}
    /\ LET created == ~fileExists
           schedules == IF created THEN <<>> ELSE loadSchedules(readOk)
           armed == activateAll(<<>>, <<>>, schedules)
       IN /\ fileExists' = TRUE
          /\ schedulesFile' = IF created THEN <<>> ELSE schedulesFile
          /\ activeSchedules' = armed.reg
          /\ timers' = armed.tms
    /\ ctl' = "running"
    /\ route' = Idle
    /\ resp' = 0
    /\ invs' = [i \in InvIds |-> FreeInv]
    /\ uploads' = [f \in FnNames |-> NoUpload]
    /\ UNCHANGED <<now, artifacts, scripts, probe>>

\* The process is stopped from outside; everything in memory is lost
Stop ==
    /\ ctl = "running"
    /\ ctl' = "down"
    /\ MemoryGone
    /\ UNCHANGED <<now, fileExists, schedulesFile, artifacts, scripts, probe>>

\* The wall clock advances by one millisecond
ClockTick ==
    /\ now < MaxClock
    /\ now' = now + 1
    /\ UNCHANGED <<ctl, schedVars, execVars>>

\* ------------------------------------------------- routes/schedules.ts
\* a spawn has failed and its 'error' event (process.nextTick) is due before
\* any other event is taken
NextTickPending == \E i \in InvIds : invs[i].child = "failed"

Ready == ctl = "running" /\ route.op = "idle" /\ ~NextTickPending

\* POST /api/schedules
RouteCreate(schedule, readOk, writeOk) ==
    /\ Ready
    /\ Len(schedulesFile) < MaxRecords
    /\ LET r == addSchedule(schedule, readOk, writeOk)
       IN /\ schedulesFile' = r.file
          /\ fileExists' = r.exists
          /\ activeSchedules' = r.reg
          /\ timers' = r.tms
    /\ resp' = 201
    /\ route' = Idle
    /\ UNCHANGED <<ctl, now, execVars>>

\* PATCH /api/schedules/id/:scheduleId
RouteUpdate(scheduleId, updates, readOk, writeOk) ==
    /\ Ready
    /\ LET r == updateSchedule(activeSchedules, timers, scheduleId, updates,
                               readOk, writeOk)
       IN /\ schedulesFile' = r.file
          /\ fileExists' = r.exists
          /\ activeSchedules' = r.reg
          /\ timers' = r.tms
          /\ resp' = IF r.found THEN 200 ELSE 404
    /\ route' = Idle
    /\ UNCHANGED <<ctl, now, execVars>>

\* DELETE /api/schedules/id/:scheduleId
RouteDelete(scheduleId, readOk, writeOk) ==
    /\ Ready
    /\ LET r == deleteSchedule(scheduleId, readOk, writeOk)
       IN /\ schedulesFile' = r.file
          /\ fileExists' = r.exists
          /\ activeSchedules' = r.reg
          /\ timers' = r.tms
          /\ resp' = IF r.found THEN 200 ELSE 404
    /\ route' = Idle
    /\ UNCHANGED <<ctl, now, execVars>>

\* POST /api/schedules/id/:scheduleId/activate, up to and including the
\* call of activateSchedule(schedule)
RouteActivate(scheduleId, readOk) ==
    /\ Ready
    /\ LET schedules == loadSchedules(readOk)
           index == findIndex(schedules, scheduleId)
       IN IF index = 0
          THEN /\ resp' = 404
               /\ route' = Idle
               /\ UNCHANGED <<activeSchedules, timers>>
          ELSE LET act == activateSchedule(activeSchedules, timers, schedules[index])
               IN /\ activeSchedules' = act.reg
                  /\ timers' = act.tms
                  /\ IF act.ok
                     THEN /\ route' = [op |-> "activate", id |-> scheduleId,
                                       tag |-> IF scheduleId \in DOMAIN activeSchedules
                                               THEN "armed" ELSE ""]
                          /\ resp' = resp
                     ELSE /\ route' = Idle
                          /\ resp' = 500
    /\ UNCHANGED <<ctl, now, fileExists, schedulesFile, execVars>>

\* ... the rest of the activate route: updateSchedule(scheduleId, {active: true})
RouteActivateUpdate(readOk, writeOk) ==
    /\ ctl = "running"
    /\ route.op = "activate"
    /\ LET r == updateSchedule(activeSchedules, timers, route.id, [active |-> TRUE],
                               readOk, writeOk)
       IN /\ schedulesFile' = r.file
          /\ fileExists' = r.exists
          /\ activeSchedules' = r.reg
          /\ timers' = r.tms
    /\ route' = [op |-> "idle", id |-> route.id, tag |-> "activated"]
    /\ resp' = 200
    /\ UNCHANGED <<ctl, now, execVars>>

\* the request before this one was the completed activate route of scheduleId
AfterActivate(scheduleId) == route.tag = "activated" /\ route.id = scheduleId

\* POST /api/schedules/id/:scheduleId/deactivate, up to and including the
\* call of deactivateSchedule(scheduleId)
RouteDeactivate(scheduleId) ==
    /\ Ready
    /\ LET deact == deactivateSchedule(activeSchedules, timers, scheduleId)
       IN /\ activeSchedules' = deact.reg
          /\ timers' = deact.tms
          /\ IF deact.ok
             THEN /\ route' = [op |-> "deactivate", id |-> scheduleId,
                               tag |-> IF AfterActivate(scheduleId) THEN "activated" ELSE ""]
                  /\ resp' = resp
             ELSE /\ route' = [op |-> "idle", id |-> scheduleId,
                               tag |-> IF AfterActivate(scheduleId)
                                       THEN "actdeact" ELSE "deact"]
                  /\ resp' = 404
    /\ UNCHANGED <<ctl, now, fileExists, schedulesFile, execVars>>

\* ... the rest of the deactivate route: updateSchedule(scheduleId, {active: false})
RouteDeactivateUpdate(readOk, writeOk) ==
    /\ ctl = "running"
    /\ route.op = "deactivate"
    /\ LET r == updateSchedule(activeSchedules, timers, route.id, [active |-> FALSE],
                               readOk, writeOk)
       IN /\ schedulesFile' = r.file
          /\ fileExists' = r.exists
          /\ activeSchedules' = r.reg
          /\ timers' = r.tms
    /\ route' = [op |-> "idle", id |-> route.id,
                 tag |-> IF route.tag = "activated" THEN "actdeact" ELSE "deact"]
    /\ resp' = 200
    /\ UNCHANGED <<ctl, now, execVars>>

\* request bodies the model sends
NewSchedules ==
    [functionName : FnNames, cronExpression : CronExprs, active : BOOLEAN, input : Inputs]

Updates ==
    {[active |-> b] : b \in BOOLEAN} \cup {[cronExpression |-> c] : c \in CronExprs}
    \cup {[functionName |-> f] : f \in FnNames} \cup {[input |-> x] : x \in Inputs}
    \cup {[id |-> j] : j \in Ids}

\* the bodies used where only the registry and the file are looked at
SchedBodies == {x \in NewSchedules : x.functionName = "f" /\ x.input = "a"}
SchedUpdates == {x \in Updates : DOMAIN x \subseteq {"active", "cronExpression", "id"}}

SchedNext ==
    \/ \E readOk \in BOOLEAN : Boot(readOk)
    \/ Stop
    \/ ClockTick
    \/ \E s \in SchedBodies, readOk, writeOk \in BOOLEAN : RouteCreate(s, readOk, writeOk)
    \/ \E j \in Ids, u \in SchedUpdates, readOk, writeOk \in BOOLEAN :
          RouteUpdate(j, u, readOk, writeOk)
    \/ \E j \in Ids, readOk, writeOk \in BOOLEAN : RouteDelete(j, readOk, writeOk)
    \/ \E j \in Ids, readOk \in BOOLEAN : RouteActivate(j, readOk)
    \/ \E readOk, writeOk \in BOOLEAN : RouteActivateUpdate(readOk, writeOk)
    \/ \E j \in Ids : RouteDeactivate(j)
    \/ \E readOk, writeOk \in BOOLEAN : RouteDeactivateUpdate(readOk, writeOk)

SchedSpec == Init /\ [][SchedNext]_vars

\* the activate and deactivate routes on schedules created with a working
\* disk
ArmNext ==
    \/ Boot(TRUE)
    \/ Stop
    \/ ClockTick
    \/ \E s \in SchedBodies : RouteCreate(s, TRUE, TRUE)
    \/ \E j \in Ids : RouteDelete(j, TRUE, TRUE)
    \/ \E j \in Ids : RouteActivate(j, TRUE)
    \/ \E writeOk \in BOOLEAN : RouteActivateUpdate(TRUE, writeOk)
    \/ \E j \in Ids : RouteDeactivate(j)
    \/ \E writeOk \in BOOLEAN : RouteDeactivateUpdate(TRUE, writeOk)

ArmSpec == Init /\ [][ArmNext]_vars

\* ------------------------------- services/fileSystem.ts, routes/functions.ts
\* POST /api/functions/upload of a .js file
Upload(functionName) ==
    /\ Ready
    /\ fnJs' = fnJs \cup {functionName}
    /\ UNCHANGED <<ctl, now, schedVars, fnTs, distJs, fnEnvFile, uploads,
                   scripts, invs, probe>>

\* POST /api/functions/upload of a .ts file, up to  await compileTypeScriptFile:
\* the file is moved into FUNCTIONS_DIR, its dependencies are extracted (deps:
\* there are some) and the compiler is started
UploadTs(functionName, deps) ==
    /\ Ready
    /\ uploads[functionName].st \in {"none", "done"}
    /\ fnTs' = fnTs \cup {functionName}
    /\ uploads' = [uploads EXCEPT ![functionName] =
                      [NoUpload EXCEPT !.st = "compiling", !.ext = "ts",
                                       !.deps = deps]]
    /\ UNCHANGED <<ctl, now, schedVars, fnJs, distJs, fnEnvFile, scripts, invs, probe>>

\* the compiler started by the upload ends: tsc writes the compiled file
\* when it succeeds and may have written it when it reports errors
TscExit(functionName, ok, emitted) ==
    /\ uploads[functionName].st = "compiling"
    /\ ok => emitted
    /\ distJs' = IF emitted THEN distJs \cup {functionName} ELSE distJs
    /\ uploads' = [uploads EXCEPT ![functionName] =
                      [@ EXCEPT !.st = "compiled", !.compiled = ok]]
    /\ UNCHANGED <<ctl, now, schedVars, fnJs, fnTs, fnEnvFile, scripts, invs, probe>>

CompileDiag == "Failed to compile TypeScript file: tsc diagnostics"
UnlinkENOENT == "ENOENT: no such file or directory, unlink"

\* the catch (compileError) of the upload route: unlinkSync(functionPath)
\* and the 400 response; unlinkSync throws when the file is gone and the
\* outer catch answers 500 with that error's message
compileRollback(functionName, up) ==
    IF functionName \in fnTs
    THEN [fnTs |-> fnTs \ {functionName},
          up |-> [up EXCEPT !.st = "done", !.status = 400, !.details = CompileDiag]]
    ELSE [fnTs |-> fnTs,
          up |-> [up EXCEPT !.st = "done", !.status = 500, !.details = UnlinkENOENT]]

\* nodeModulesDir of installDependencies
nodeModulesDir(functionName) == "functions/" \o functionName \o "/node_modules"

PrepError == "Failed to create function directory"
NpmFailed == "npm install failed with code"
NpmNotExecuted == "Failed to execute npm install"
NpmCodes == {0, 1}

\* a close handler that takes every non-zero exit code for a failure
installClosedStrict(functionName, code, dirThere) ==
    IF code # 0
    THEN [ok |-> FALSE, value |-> NpmFailed]
    ELSE [ok |-> TRUE, value |-> nodeModulesDir(functionName)]

\* the install.on('close') handler of installDependencies: what the promise
\* settles to, given the exit code and whether node_modules exists
installClosed(functionName, code, dirThere) ==
    IF code # 0 /\ ~dirThere
    THEN [ok |-> FALSE, value |-> NpmFailed]
    ELSE [ok |-> TRUE, value |-> nodeModulesDir(functionName)]

\* an upload route that answers 500 when the installation failed
installResponseFatal(up, r) ==
    [up EXCEPT !.st = "done", !.status = IF r.ok THEN 200 ELSE 500,
               !.installOk = r.ok,
               !.output = IF r.ok THEN r.value ELSE "",
               !.installError = IF r.ok THEN "" ELSE r.value]

\* the upload route after  await installDependencies: the
\* dependencyInstallation part is filled in by the try or by the catch and
\* res.json(responseObject) answers 200 with success: true
installResponse(up, r) ==
    [up EXCEPT !.st = "done", !.status = 200, !.installOk = r.ok,
               !.output = IF r.ok THEN r.value ELSE "",
               !.installError = IF r.ok THEN "" ELSE r.value]

\* the upload route from "Install dependencies if any were found" on, up
\* to the spawn of npm: no dependencies, or installDependencies throws while
\* it prepares the directory and package.json (prepOk is false), or npm runs
installStart(up, prepOk) ==
    IF ~up.deps
    THEN installResponse(up, [ok |-> TRUE, value |-> "No dependencies detected"])
    ELSE IF ~prepOk
    THEN installResponse([up EXCEPT !.install = TRUE],
                         [ok |-> FALSE, value |-> PrepError])
    ELSE [up EXCEPT !.st = "installing", !.install = TRUE]

\* POST /api/functions/upload of a .js file in which extractDependencies
\* found dependencies
UploadJs(functionName, prepOk) ==
    /\ Ready
    /\ uploads[functionName].st \in {"none", "done"}
    /\ fnJs' = fnJs \cup {functionName}
    /\ uploads' = [uploads EXCEPT ![functionName] =
                      installStart([NoUpload EXCEPT !.ext = "js", !.deps = TRUE],
                                   prepOk)]
    /\ UNCHANGED <<ctl, now, schedVars, fnTs, distJs, fnEnvFile, scripts, invs, probe>>

\* the rest of the upload route after the compiler: the rollback when it
\* failed, otherwise the dependency installation
UploadCompiled(functionName, prepOk) ==
    /\ ctl = "running"
    /\ ~NextTickPending
    /\ uploads[functionName].st = "compiled"
    /\ LET up == uploads[functionName]
           r == IF up.compiled
                THEN [fnTs |-> fnTs, up |-> installStart(up, prepOk)]
                ELSE compileRollback(functionName, up)
       IN /\ fnTs' = r.fnTs
          /\ uploads' = [uploads EXCEPT ![functionName] = r.up]
    /\ UNCHANGED <<ctl, now, schedVars, fnJs, distJs, fnEnvFile, scripts, invs, probe>>

\* npm ends: the close handler settles the promise of installDependencies and
\* the upload route answers
NpmClose(functionName, code, dirThere) ==
    /\ ctl = "running"
    /\ ~NextTickPending
    /\ uploads[functionName].st = "installing"
    /\ uploads' = [uploads EXCEPT ![functionName] =
                      installResponse([@ EXCEPT !.npm = "closed", !.code = code,
                                                !.dir = dirThere],
                                      installClosed(functionName, code, dirThere))]
    /\ UNCHANGED <<ctl, now, schedVars, artifacts, scripts, invs, probe>>

\* npm could not be spawned: the 'error' handler rejects the promise
NpmError(functionName) ==
    /\ ctl = "running"
    /\ ~NextTickPending
    /\ uploads[functionName].st = "installing"
    /\ uploads' = [uploads EXCEPT ![functionName] =
                      installResponse([@ EXCEPT !.npm = "error"],
                                      [ok |-> FALSE, value |-> NpmNotExecuted])]
    /\ UNCHANGED <<ctl, now, schedVars, artifacts, scripts, invs, probe>>

\* deleteFunction: unlink <name>.js, <name>.ts and the compiled <name>.js
\* where they exist
deleteFunction(functionName) ==
    [fnJs |-> fnJs \ {functionName}, fnTs |-> fnTs \ {functionName},
     distJs |-> distJs \ {functionName}, fnEnvFile |-> fnEnvFile]

\* DELETE /api/functions/name/:functionName
DeleteFunction(functionName) ==
    /\ Ready
    /\ LET r == deleteFunction(functionName)
       IN /\ fnJs' = r.fnJs
          /\ fnTs' = r.fnTs
          /\ distJs' = r.distJs
          /\ fnEnvFile' = r.fnEnvFile
    /\ UNCHANGED <<ctl, now, schedVars, uploads, scripts, invs, probe>>

\* POST /api/functions/name/:functionName/env: saveFunctionEnv writes <name>.env
SaveEnv(functionName) ==
    /\ Ready
    /\ fnEnvFile' = fnEnvFile \cup {functionName}
    /\ UNCHANGED <<ctl, now, schedVars, fnJs, fnTs, distJs, uploads, scripts, invs, probe>>

StoreNext ==
    \/ \E readOk \in BOOLEAN : Boot(readOk)
    \/ \E f \in FnNames : Upload(f)
    \/ \E f \in FnNames, deps \in BOOLEAN : UploadTs(f, deps)
    \/ \E f \in FnNames, ok, emitted \in BOOLEAN : TscExit(f, ok, emitted)
    \/ \E f \in FnNames, prepOk \in BOOLEAN : UploadCompiled(f, prepOk)
    \/ \E f \in FnNames, code \in NpmCodes, dirThere \in BOOLEAN :
          NpmClose(f, code, dirThere)
    \/ \E f \in FnNames : DeleteFunction(f)
    \/ \E f \in FnNames : SaveEnv(f)

StoreSpec == Init /\ [][StoreNext]_vars

\* uploads with their dependency installation
InstallNext ==
    \/ Boot(TRUE)
    \/ \E f \in FnNames, prepOk \in BOOLEAN : UploadJs(f, prepOk)
    \/ \E f \in FnNames, deps \in BOOLEAN : UploadTs(f, deps)
    \/ \E f \in FnNames, ok \in BOOLEAN : TscExit(f, ok, ok)
    \/ \E f \in FnNames, prepOk \in BOOLEAN : UploadCompiled(f, prepOk)
    \/ \E f \in FnNames, code \in NpmCodes, dirThere \in BOOLEAN :
          NpmClose(f, code, dirThere)
    \/ \E f \in FnNames : NpmError(f)
    \/ \E f \in FnNames : DeleteFunction(f)

InstallSpec == Init /\ [][InstallNext]_vars

\* ------------------------------------------------- services/executor.ts
NullCode == -1   \* the close event's code when the child was ended by a signal

TimeoutResult ==
    [exitCode |-> 124, error |-> "Function execution timed out", result |-> "null"]

NotFoundResult == [exitCode |-> 1, error |-> "Function not found", result |-> "null"]

\* the catch of executeFunction for the error compileTypeScriptFile throws
CompileFailedResult ==
    [exitCode |-> 1, error |-> "Failed to compile TypeScript file", result |-> "null"]

\* JSON.stringify of a string value: the text of it, in double quotes
JSONstringify(v) == "\"" \o v \o "\""

\* the trimmed text between the result markers for a function that logs
\* nothing: the script prints JSON.stringify of the value through the
\* replaced console.log, so the region is "[LOG] <json>\n[LOG] "
ResultRegion(v) == "[LOG] " \o JSONstringify(v) \o "\n[LOG]"

\* what the close handler passes to resolve: exitCode is  code || 0, the
\* result is the text between the result markers (the function returns the
\* input it was given), error is the child's stderr
CloseResult(code, childInput) ==
    [exitCode |-> IF code = NullCode THEN 0 ELSE code,
     error |-> IF code \notin {0, NullCode} THEN "stderr" ELSE "",
     result |-> IF code = 0 /\ childInput # NoInput THEN ResultRegion(childInput) ELSE ""]

\* a result holder that every call of resolve overwrites
ResolveLastWins(current, r) == r

\* resolve of the Promise: only the first call settles it
Resolve(current, r) == IF current = NoResult THEN r ELSE current

\* a tick callback that gives up on a schedule whose invocation failed
tickCallbackDisarming(reg, tms, origin, result) ==
    IF result.exitCode # 0 /\ origin \in DOMAIN reg
    THEN [reg |-> RemoveKey(reg, origin), tms |-> RemoveKey(tms, reg[origin])]
    ELSE [reg |-> reg, tms |-> tms]

\* the rest of the cron.schedule callback once  await executeFunction(...)
\* has a result: it logs the result and touches neither registry nor timers
tickCallback(reg, tms, origin, result) == [reg |-> reg, tms |-> tms]

\* the awaiting caller continues with the delivered result: the tick callback
\* for an invocation a tick started, the execute route (res.json) otherwise
Continue(origin, before, after) ==
    LET r == IF origin # NoOrigin /\ before = NoResult /\ after # NoResult
             THEN tickCallback(activeSchedules, timers, origin, after)
             ELSE [reg |-> activeSchedules, tms |-> timers]
    IN /\ activeSchedules' = r.reg
       /\ timers' = r.tms

\* the slot a new invocation takes: the least one not in flight
Available(i) == invs[i].st \in {"free", "done"}
NextSlot == CHOOSE i \in InvIds : Available(i) /\ \A j \in 1..(i - 1) : ~Available(j)

\* executeFunction from  getFunctionEnv  to the return of the Promise: write
\* the bootstrap script for the executable (exe: the .js file or the compiled
\* file), spawn the child (spawnOk: the runtime could be started), arm the
\* timeout
launch(inv, exe, spawnOk) ==
    [scripts |-> [scripts EXCEPT ![tmpScriptPath(inv.fn)] =
                     [input |-> inv.input, exe |-> exe]],
     inv |-> [inv EXCEPT !.st = "pending", !.code = 0,
                         !.child = IF spawnOk THEN "spawned" ELSE "failed",
                         !.timeoutArmed = TRUE]]

\* executeFunction without the existsSync checks
executeFunctionUnchecked(functionName, input, origin, spawnOk) ==
    launch([FreeInv EXCEPT !.fn = functionName, !.input = input, !.origin = origin],
           "js", spawnOk)

\* executeFunction(functionName, {input}) up to its first suspension: resolve
\* the file; for a .js file go on to the Promise, for a .ts file wait for
\* compileTypeScriptFile, with neither return the error result from the catch
executeFunction(functionName, input, origin, spawnOk) ==
    LET inv == [FreeInv EXCEPT !.fn = functionName, !.input = input, !.origin = origin]
    IN IF functionName \in fnJs
       THEN launch(inv, "js", spawnOk)
       ELSE IF functionName \in fnTs
       THEN [scripts |-> scripts, inv |-> [inv EXCEPT !.st = "compiling"]]
       ELSE [scripts |-> scripts,
             inv |-> [inv EXCEPT !.st = "done", !.result = NotFoundResult]]

\* a continuation that goes on to the spawn whatever the compiler reported
afterCompileIgnoringFailure(inv, spawnOk) == launch(inv, "dist", spawnOk)

\* executeFunction after  await compileTypeScriptFile(tsPath): inv.code is
\* the exit code of the compiler; a failed compilation was thrown and the
\* catch returns the error result
afterCompile(inv, spawnOk) ==
    IF inv.code = 0
    THEN launch(inv, "dist", spawnOk)
    ELSE [scripts |-> scripts,
          inv |-> [inv EXCEPT !.st = "done", !.code = 0, !.result = CompileFailedResult]]

\* POST /api/functions/name/:functionName/execute
Execute(functionName, input, spawnOk) ==
    /\ Ready
    /\ \E i \in InvIds : Available(i)
    /\ LET r == executeFunction(functionName, input, NoOrigin, spawnOk)
       IN /\ scripts' = r.scripts
          /\ invs' = [invs EXCEPT ![NextSlot] = r.inv]
    /\ UNCHANGED <<ctl, now, schedVars, storeVars, probe>>

\* the callback of cron.schedule inside activateSchedule: a tick of timer t
Tick(t, spawnOk) ==
    /\ Ready
    /\ t \in DOMAIN timers
    /\ \E i \in InvIds : Available(i)
    /\ LET r == executeFunction(timers[t].functionName, timers[t].input, timers[t].id,
                                spawnOk)
       IN /\ scripts' = r.scripts
          /\ invs' = [invs EXCEPT ![NextSlot] = r.inv]
          /\ Continue(timers[t].id, NoResult, r.inv.result)
    /\ UNCHANGED <<ctl, now, fileExists, schedulesFile, route, resp, storeVars, probe>>

\* the compiler started by executeFunction ends (exit code 0, or 2 with
\* errors); tsc writes the compiled file when it succeeds and may have
\* written it when it reports errors
CompileExit(i, code, emitted) ==
    /\ invs[i].st = "compiling"
    /\ code = 0 => emitted
    /\ distJs' = IF emitted THEN distJs \cup {invs[i].fn} ELSE distJs
    /\ invs' = [invs EXCEPT ![i] = [@ EXCEPT !.st = "compiled", !.code = code]]
    /\ UNCHANGED <<ctl, now, schedVars, fnJs, fnTs, fnEnvFile, uploads, scripts, probe>>

\* executeFunction resumes after the compiler
Compiled(i, spawnOk) ==
    /\ ctl = "running"
    /\ ~NextTickPending
    /\ invs[i].st = "compiled"
    /\ LET r == afterCompile(invs[i], spawnOk)
       IN /\ scripts' = r.scripts
          /\ invs' = [invs EXCEPT ![i] = r.inv]
          /\ Continue(invs[i].origin, NoResult, r.inv.result)
    /\ UNCHANGED <<ctl, now, fileExists, schedulesFile, route, resp, storeVars, probe>>

\* the 'error' event of a child that could not be spawned: the ChildProcess
\* has no 'error' listener, so the emit throws and nothing catches it
SpawnError(i) ==
    /\ ctl = "running"
    /\ invs[i].child = "failed"
    /\ ctl' = "crashed"
    /\ MemoryGone
    /\ UNCHANGED <<now, fileExists, schedulesFile, artifacts, scripts, probe>>

\* the executable the script at the path of invocation inv imports is there
ExecutableThere(inv) ==
    LET s == scripts[tmpScriptPath(inv.fn)]
    IN \/ s.exe = "js" /\ inv.fn \in fnJs
       \/ s.exe = "dist" /\ inv.fn \in distJs

\* the child process starts: node reads the bootstrap script that is at
\* tmpScriptPath now and the script imports the function file; with no
\* script there node exits with code 1, and so does the script when the
\* import fails
ChildLoad(i) ==
    /\ invs[i].child = "spawned"
    /\ invs' = [invs EXCEPT ![i] =
          IF scripts[tmpScriptPath(invs[i].fn)] = NoScript \/ ~ExecutableThere(invs[i])
          THEN [@ EXCEPT !.child = "exited", !.code = 1]
          ELSE [@ EXCEPT !.child = "loaded",
                         !.childInput = scripts[tmpScriptPath(invs[i].fn)].input]]
    /\ UNCHANGED <<ctl, now, schedVars, storeVars, scripts, probe>>

\* the user function returns (process.exit(0)), throws (process.exit(1)) or
\* ends the process itself with a code of its own; only a child that
\* returned has a result to print
ChildExit(i, code) ==
    /\ invs[i].child = "loaded"
    /\ invs' = [invs EXCEPT ![i] =
          [@ EXCEPT !.child = "exited", !.code = code,
                    !.childInput = IF code = 0 THEN @ ELSE NoInput]]
    /\ UNCHANGED <<ctl, now, schedVars, storeVars, scripts, probe>>

\* the child is ended by a signal that is not the controller's (the kernel,
\* an operator): the close event carries no exit code
ChildSignal(i) ==
    /\ invs[i].child \in {"spawned", "loaded"}
    /\ invs' = [invs EXCEPT ![i] =
          [@ EXCEPT !.child = "exited", !.code = NullCode, !.childInput = NoInput]]
    /\ UNCHANGED <<ctl, now, schedVars, storeVars, scripts, probe>>

\* the setTimeout callback: child.kill() and resolve with exit code 124
kill(inv) ==
    IF inv.child \in {"spawned", "loaded"}
    THEN [inv EXCEPT !.child = "exited", !.code = NullCode, !.childInput = NoInput]
    ELSE inv

Timeout(i) ==
    /\ Ready
    /\ invs[i].timeoutArmed
    /\ invs' = [invs EXCEPT ![i] =
          [kill(@) EXCEPT !.timeoutArmed = FALSE, !.timedOut = TRUE,
                          !.result = Resolve(invs[i].result, TimeoutResult)]]
    /\ Continue(invs[i].origin, invs[i].result, Resolve(invs[i].result, TimeoutResult))
    /\ UNCHANGED <<ctl, now, fileExists, schedulesFile, route, resp, storeVars, scripts, probe>>

\* the 'close' listener: clearTimeout, unlinkSync(tmpScriptPath), resolve.
\* unlinkSync throws when the file is gone; nothing catches it in the listener
Close(i) ==
    /\ Ready
    /\ invs[i].child = "exited"
    /\ IF scripts[tmpScriptPath(invs[i].fn)] = NoScript
       THEN /\ ctl' = "crashed"
            /\ MemoryGone
            /\ UNCHANGED <<now, fileExists, schedulesFile, artifacts, scripts, probe>>
       ELSE /\ scripts' = [scripts EXCEPT ![tmpScriptPath(invs[i].fn)] = NoScript]
            /\ invs' = [invs EXCEPT ![i] =
                  [@ EXCEPT !.st = "done", !.child = "closed", !.timeoutArmed = FALSE,
                            !.childInput = NoInput, !.code = 0, !.fn = "",
                            !.result = Resolve(invs[i].result,
                                               CloseResult(invs[i].code, invs[i].childInput))]]
            /\ Continue(invs[i].origin, invs[i].result,
                        Resolve(invs[i].result,
                                CloseResult(invs[i].code, invs[i].childInput)))
            /\ UNCHANGED <<ctl, now, fileExists, schedulesFile, route, resp, storeVars, probe>>

\* exit codes a child ends with: success, the script's error exit, a code of
\* the user code's own
ExitCodes == {0, 1, 3}

\* the engine with a runtime that starts and children that end by themselves
\* or by the timeout
ExecNext ==
    \/ \E readOk \in BOOLEAN : Boot(readOk)
    \/ \E f \in FnNames : Upload(f)
    \/ \E f \in FnNames, x \in Inputs : Execute(f, x, TRUE)
    \/ \E i \in InvIds : ChildLoad(i)
    \/ \E i \in InvIds, c \in {0, 1} : ChildExit(i, c)
    \/ \E i \in InvIds : Timeout(i)
    \/ \E i \in InvIds : Close(i)

ExecSpec == Init /\ [][ExecNext]_vars

\* the engine with the faults of the environment: a runtime that cannot be
\* spawned, children ended by a foreign signal, exit codes of user code
FaultNext ==
    \/ \E readOk \in BOOLEAN : Boot(readOk)
    \/ \E f \in FnNames : Upload(f)
    \/ \E f \in FnNames, x \in Inputs, spawnOk \in BOOLEAN : Execute(f, x, spawnOk)
    \/ \E i \in InvIds : SpawnError(i)
    \/ \E i \in InvIds : ChildLoad(i)
    \/ \E i \in InvIds, c \in ExitCodes : ChildExit(i, c)
    \/ \E i \in InvIds : ChildSignal(i)
    \/ \E i \in InvIds : Timeout(i)
    \/ \E i \in InvIds : Close(i)

FaultSpec == Init /\ [][FaultNext]_vars

\* ------------------------------------------- scheduler driving the engine
\* the schedules whose ticks are followed: valid, active, one function, one
\* payload, all created within one millisecond
TickFns == {"f"}
TickBodies ==
    {x \in NewSchedules : /\ x.cronExpression = ValidCron /\ x.active
                          /\ x.functionName \in TickFns /\ x.input = "a"}

TickNext ==
    \/ \E readOk \in BOOLEAN : Boot(readOk)
    \/ \E s \in TickBodies, readOk, writeOk \in BOOLEAN : RouteCreate(s, readOk, writeOk)
    \/ \E f \in TickFns : Upload(f)
    \/ \E f \in TickFns : DeleteFunction(f)
    \/ \E t \in DOMAIN timers : Tick(t, TRUE)
    \/ \E i \in InvIds : ChildLoad(i)
    \/ \E i \in InvIds, c \in {0, 1} : ChildExit(i, c)
    \/ \E i \in InvIds : Timeout(i)
    \/ \E i \in InvIds : Close(i)

TickSpec == Init /\ [][TickNext]_vars

\* ------------------------------------------- on-demand compilation
\* invocations of a function that has a .ts source only
CompileFns == {"f"}

CompileNext ==
    \/ \E readOk \in BOOLEAN : Boot(readOk)
    \/ \E f \in CompileFns : UploadTs(f, FALSE)
    \/ \E f \in CompileFns, ok, emitted \in BOOLEAN : TscExit(f, ok, emitted)
    \/ \E f \in CompileFns : UploadCompiled(f, TRUE)
    \/ \E f \in CompileFns : DeleteFunction(f)
    \/ \E f \in CompileFns : Execute(f, "a", TRUE)
    \/ \E i \in InvIds, code \in {0, 2}, emitted \in BOOLEAN : CompileExit(i, code, emitted)
    \/ \E i \in InvIds : Compiled(i, TRUE)
    \/ \E i \in InvIds : ChildLoad(i)
    \/ \E i \in InvIds, c \in {0, 1} : ChildExit(i, c)
    \/ \E i \in InvIds : Close(i)

CompileSpec == Init /\ [][CompileNext]_vars

\* ------------------------------- pure parts of executeFunction and its script
\* object spread of environment maps: a variable defined in b overrides a
SpreadEnv(a, b) == [n \in EnvNames |-> IF b[n] # Undef THEN b[n] ELSE a[n]]

NodeOptions == "--experimental-modules --es-module-specifier-resolution=node"

\* processEnv.NODE_PATH when the function has its own node_modules directory
NodePath(procEnv) ==
    "functions/node_modules:" \o (IF procEnv["NODE_PATH"] = Undef THEN ""
                                  ELSE procEnv["NODE_PATH"])

\* the env option of spawn: { ...process.env, ...env, ...functionEnv,
\* NODE_OPTIONS }, then NODE_PATH when hasCustomModules
processEnv(procEnv, env, functionEnv, hasCustomModules) ==
    LET merged == [SpreadEnv(SpreadEnv(procEnv, env), functionEnv)
                      EXCEPT !["NODE_OPTIONS"] = NodeOptions]
    IN IF hasCustomModules
       THEN [merged EXCEPT !["NODE_PATH"] = NodePath(procEnv)]
       ELSE merged

\* JavaScript truthiness of what is under an export name
Truthy(kind) == kind \in {"function", "object"}

\* importedModule.default || importedModule.handler || importedModule.main:
\* the name whose value the expression yields, "none" when all are falsy
fnToExecute(importedModule) ==
    IF Truthy(importedModule.default) THEN "default"
    ELSE IF Truthy(importedModule.handler) THEN "handler"
    ELSE IF Truthy(importedModule.main) THEN "main"
    ELSE "none"

\* the entry point the script calls, "error" when typeof fnToExecute is not
\* 'function' and the script throws
entryPoint(importedModule) ==
    LET chosen == fnToExecute(importedModule)
    IN IF chosen # "none" /\ importedModule[chosen] = "function"
       THEN chosen ELSE "error"

\* the maps of one layer: every variable undefined or set by that layer
EnvLayer(v) == [EnvNames -> {Undef, v}]
Modules == [default : ExportKinds, handler : ExportKinds, main : ExportKinds]

\* executeFunction builds the child environment
BuildEnv(procEnv, env, functionEnv, hasCustomModules) ==
    /\ probe' = [NoProbe EXCEPT !.kind = "env", !.proc = procEnv, !.caller = env,
                                !.fn = functionEnv, !.custom = hasCustomModules,
                                !.env = processEnv(procEnv, env, functionEnv,
                                                   hasCustomModules)]
    /\ UNCHANGED <<ctl, now, schedVars, storeVars, scripts, invs>>

\* the bootstrap script chooses the entry point of the imported module
PickEntry(importedModule) ==
    /\ probe' = [NoProbe EXCEPT !.kind = "entry", !.module = importedModule,
                                !.entry = entryPoint(importedModule)]
    /\ UNCHANGED <<ctl, now, schedVars, storeVars, scripts, invs>>

PureNext ==
    \/ \E procEnv \in EnvLayer("process"), env \in EnvLayer("caller"),
          functionEnv \in EnvLayer("function"), hasCustomModules \in BOOLEAN :
          BuildEnv(procEnv, env, functionEnv, hasCustomModules)
    \/ \E importedModule \in Modules : PickEntry(importedModule)

PureSpec == Init /\ [][PureNext]_vars

\* --------------------------- services/fileSystem.ts: the <name>.env files
\* A text is a sequence of characters.  Environment maps are given as the
\* sequence Object.entries yields: <<key, value>> pairs with distinct keys.
MaxText == 2       \* greatest length of a key or of a value
MaxEntries == 2    \* greatest number of variables in one map
KeyChars == {"K", " ", "#"}       \* no "=" in a key
ValueChars == {"v", " ", "="}     \* no newline in a value
Whitespace == {" ", "\n"}
Texts(chars) == UNION {[1..n -> chars] : n \in 0..MaxText}
EnvEntries == Texts(KeyChars) \X Texts(ValueChars)
EnvMaps ==
    {m \in UNION {[1..n -> EnvEntries] : n \in 0..MaxEntries} :
        \A i, j \in 1..Len(m) : i # j => m[i][1] # m[j][1]}

\* the object an entries sequence stands for: key -> value
MapOf(entries) ==
    [k \in {entries[i][1] : i \in 1..Len(entries)} |->
        entries[CHOOSE i \in 1..Len(entries) : entries[i][1] = k][2]]

\* env[key] = value on an object
Put(env, key, value) ==
    [k \in DOMAIN env \cup {key} |-> IF k = key THEN value ELSE env[k]]

\* String.prototype.split with a one-character separator
RECURSIVE split(_, _)
split(text, sep) ==
    IF \A i \in 1..Len(text) : text[i] # sep THEN <<text>>
    ELSE LET i == CHOOSE n \in 1..Len(text) :
                      text[n] = sep /\ \A j \in 1..(n - 1) : text[j] # sep
         IN <<SubSeq(text, 1, i - 1)>> \o split(SubSeq(text, i + 1, Len(text)), sep)

\* Array.prototype.join with a one-character separator
RECURSIVE join(_, _)
join(parts, sep) ==
    IF parts = <<>> THEN <<>>
    ELSE IF Len(parts) = 1 THEN parts[1]
    ELSE parts[1] \o <<sep>> \o join(Tail(parts), sep)

RECURSIVE trimStart(_)
trimStart(text) ==
    IF text # <<>> /\ Head(text) \in Whitespace THEN trimStart(Tail(text)) ELSE text

RECURSIVE trimEnd(_)
trimEnd(text) ==
    IF text # <<>> /\ text[Len(text)] \in Whitespace
    THEN trimEnd(SubSeq(text, 1, Len(text) - 1)) ELSE text

\* String.prototype.trim
trim(text) == trimEnd(trimStart(text))

startsWith(text, char) == text # <<>> /\ Head(text) = char

\* envContent of saveFunctionEnv: `${key}=${value}\n` for every entry
RECURSIVE envContent(_)
envContent(entries) ==
    IF entries = <<>> THEN <<>>
    ELSE Head(entries)[1] \o <<"=">> \o Head(entries)[2] \o <<"\n">>
            \o envContent(Tail(entries))

\* the for loop of getFunctionEnv over the lines of the file
RECURSIVE parseEnvLines(_, _)
parseEnvLines(lines, env) ==
    IF lines = <<>> THEN env
    ELSE LET line == Head(lines)
             parts == split(line, "=")
             key == Head(parts)
             value == join(Tail(parts), "=")
             skipped == trim(line) = <<>> \/ startsWith(line, "#")
         IN parseEnvLines(Tail(lines),
                          IF skipped \/ key = <<>> THEN env
                          ELSE Put(env, trim(key), trim(value)))

\* getFunctionEnv on a file with the given content
getFunctionEnv(envContentRead) ==
    parseEnvLines(split(envContentRead, "\n"), MapOf(<<>>))

\* saveFunctionEnv(functionName, env) and then getFunctionEnv(functionName)
SaveThenGetEnv(env) ==
    /\ probe.kind = "none"
    /\ probe' = [NoProbe EXCEPT !.kind = "envfile", !.saved = env,
                                !.file = envContent(env),
                                !.loaded = getFunctionEnv(envContent(env))]
    /\ UNCHANGED <<ctl, now, schedVars, storeVars, scripts, invs>>

\* one evaluation per behaviour
EnvFileNext == probe.kind = "none" /\ \E env \in EnvMaps : SaveThenGetEnv(env)

EnvFileSpec == Init /\ [][EnvFileNext]_vars

\* ------------------- services/fileSystem.ts: extractDependencies(code)
\* Module specifiers and package names are texts.  The code of a function is
\* given by what the patterns of extractDependencies look at: whether it
\* holds the @dependencies tag, the "name": "version" lines of its manifest,
\* and its statements  const x = require('<spec>')  ("require") and
\* import x from '<spec>'  ("import").
MaxStatements == 2    \* greatest number of require / import statements
Lodash == <<"l", "o", "d", "a", "s", "h">>
LodashFp == Lodash \o <<"/", "f", "p">>
OrgPkg == <<"@", "o", "/", "p">>
StdFs == <<"f", "s">>
StdFsPromises == StdFs \o <<"/", "p">>
StdPath == <<"p", "a", "t", "h">>
StdAssert == <<"a", "s", "s", "e", "r", "t">>
NodeFs == <<"n", "o", "d", "e", ":", "f", "s">>
Relative == <<".", "/", "h">>
Absolute == <<"/", "o", "p", "t", "/", "h">>
Specifiers ==
    {Lodash, LodashFp, OrgPkg, StdFs, StdFsPromises, StdAssert, NodeFs,
     Relative, Absolute}
Statements == [style : {"require", "import"}, spec : Specifiers]
Latest == "latest"
Declared == "4.17.21"
Manifests == {MapOf(<<>>), MapOf(<< <<Lodash, Declared>> >>)}
Codes ==
    {c \in [tagged : BOOLEAN, manifest : Manifests, statements : SUBSET Statements] :
        /\ Cardinality(c.statements) <= MaxStatements
        /\ ~c.tagged => c.manifest = MapOf(<<>>)}

\* the names of builtInModules that the specifiers above can yield; the
\* other names of the list are excluded in the same way
builtInModules == {StdFs, StdPath}

\* the for loop over the lines when the code includes '@dependencies'
manifestDependencies(code) ==
    IF code.tagged THEN code.manifest ELSE MapOf(<<>>)

\* if (!dependencies[name]) dependencies[name] = 'latest'
addLatest(dependencies, name) ==
    IF name \in DOMAIN dependencies THEN dependencies
    ELSE Put(dependencies, name, Latest)

\* one match of requireRegex or destructuringRequireRegex
requireDependency(dependencies, spec) ==
    LET parts == split(spec, "/")
        base == Head(parts)
        pkgName == IF startsWith(base, "@") /\ Len(parts) >= 2
                   THEN parts[1] \o <<"/">> \o parts[2]
                   ELSE base
    IN IF spec = <<>> THEN dependencies
       ELSE IF /\ pkgName \notin builtInModules
               /\ ~startsWith(pkgName, ".")
               /\ ~startsWith(pkgName, "/")
       THEN addLatest(dependencies, pkgName)
       ELSE dependencies

\* the import patterns: ["']([^@./][^/"]*)["'] matches a specifier that
\* starts with none of @ . / and holds no "/"; ["'](@[^/]+\/[^/"]*)["']
\* matches @scope/name
importMatches(spec) ==
    LET parts == split(spec, "/")
    IN \/ /\ spec # <<>>
          /\ Head(spec) \notin {"@", ".", "/"}
          /\ Len(parts) = 1
       \/ /\ startsWith(spec, "@")
          /\ Len(parts) = 2
          /\ Len(parts[1]) >= 2

\* one match of an import pattern: packageName = match[1].split('/')[0]
importDependency(dependencies, spec) ==
    LET packageName == Head(split(spec, "/"))
    IN IF ~importMatches(spec) \/ packageName \in builtInModules
       THEN dependencies
       ELSE addLatest(dependencies, packageName)

RECURSIVE scanStatements(_, _)
scanStatements(dependencies, statements) ==
    IF statements = {} THEN dependencies
    ELSE LET s == CHOOSE x \in statements : TRUE
             next == IF s.style = "require"
                     THEN requireDependency(dependencies, s.spec)
                     ELSE importDependency(dependencies, s.spec)
         IN scanStatements(next, statements \ {s})

extractDependencies(code) ==
    scanStatements(manifestDependencies(code), code.statements)

ExtractDeps(code) ==
    /\ probe.kind = "none"
    /\ probe' = [NoProbe EXCEPT !.kind = "deps", !.code = code,
                                !.dependencies = extractDependencies(code)]
    /\ UNCHANGED <<ctl, now, schedVars, storeVars, scripts, invs>>

\* one evaluation per behaviour
DepsNext == probe.kind = "none" /\ \E code \in Codes : ExtractDeps(code)

DepsSpec == Init /\ [][DepsNext]_vars

\* --------------- executor.ts: the bootstrap script's output and the result
\* The output of the child is a text whose symbols are the fixed pieces the
\* script writes (the markers, the "[LOG]" prefix), blanks, newlines, the
\* JSON text of the returned value and the texts of the user's log calls.
MaxLogs == 3    \* greatest number of console.log calls of the user code
OutputStartMarker == "__FUNCTION_OUTPUT_START__"
OutputEndMarker == "__FUNCTION_OUTPUT_END__"
moduleSetupEndMarker == "__MODULE_SETUP_COMPLETE__"
LogsStartLine == "-------------------------- FUNCTION LOGS START --------------------------"
LogsEndLine == "-------------------------- FUNCTION LOGS END --------------------------"
functionResultStartMarker == "__FUNCTION_RESULT_START__"
functionResultEndMarker == "__FUNCTION_RESULT_END__"
LogPrefix == "[LOG]"
ValueTexts == {"42", "true"}
LogTexts == {"hello", functionResultStartMarker, functionResultEndMarker, LogsEndLine}
LogSeqs == UNION {[1..n -> LogTexts] : n \in 0..MaxLogs}

\* directWrite('LOG', [text]): process.stdout.write(`[LOG] ${text}\n`)
directWrite(text) == <<LogPrefix, " ", text, "\n">>

RECURSIVE userLogs(_)
userLogs(logs) ==
    IF logs = <<>> THEN <<>> ELSE directWrite(Head(logs)) \o userLogs(Tail(logs))

\* what the script writes when the entry point logs the lines of logs and
\* returns a value whose JSON text is value: the header goes through
\* process.stdout.write and the original console.log, everything after the
\* replacement of console.log through directWrite
wrapperOutput(logs, value) ==
    <<OutputStartMarker, "\n", moduleSetupEndMarker, "\n", LogsStartLine, "\n">>
       \o userLogs(logs)
       \o directWrite(LogsEndLine)
       \o directWrite(functionResultStartMarker)
       \o directWrite(value)
       \o directWrite(functionResultEndMarker)
       \o <<OutputEndMarker, "\n">>

\* String.prototype.indexOf(pattern, from): the least position, 0 for -1
indexOf(text, pattern, from) ==
    LET hits == {k \in from..(Len(text) - Len(pattern) + 1) :
                    SubSeq(text, k, k + Len(pattern) - 1) = pattern}
    IN IF hits = {} THEN 0 ELSE CHOOSE k \in hits : \A n \in hits : k <= n

\* extractBetweenMarkers of the close listener
extractBetweenMarkers(text, startMarker, endMarker) ==
    LET startIndex == indexOf(text, startMarker, 1)
        contentStart == startIndex + Len(startMarker)
        endIndex == indexOf(text, endMarker, contentStart)
    IN IF startIndex = 0 THEN <<>>
       ELSE IF endIndex = 0 THEN SubSeq(text, contentStart, Len(text))
       ELSE SubSeq(text, contentStart, endIndex - 1)

\* functionResult of the close listener
functionResult(output) ==
    trim(extractBetweenMarkers(output, <<functionResultStartMarker, "\n">>,
                               <<functionResultEndMarker>>))

\* a child runs to the end and the close listener takes the result
ExtractResult(logs, value) ==
    /\ probe.kind = "none"
    /\ probe' = [NoProbe EXCEPT !.kind = "output", !.logs = logs, !.value = value,
                                !.output = wrapperOutput(logs, value),
                                !.result = functionResult(wrapperOutput(logs, value))]
    /\ UNCHANGED <<ctl, now, schedVars, storeVars, scripts, invs>>

\* one evaluation per behaviour
OutputNext ==
    probe.kind = "none" /\ \E logs \in LogSeqs, value \in ValueTexts : ExtractResult(logs, value)

OutputSpec == Init /\ [][OutputNext]_vars

\* ------------------ executor.ts: the input payload inside the script
\* The payload is a JSON string value, given by its characters.
MaxPayload == 3    \* greatest length of the payload string
Backslash == "\\"
Quote == "\""
Apostrophe == "'"
Newline == "\n"
PayloadChars == {"a", "n", Apostrophe, Quote, Backslash, Newline}
Payloads == UNION {[1..n -> PayloadChars] : n \in 0..MaxPayload}
SyntaxError == <<"SyntaxError">>

\* JSON.stringify of a string: quotes around it, the quote and the
\* backslash escaped, the newline written as \n
RECURSIVE jsonEscape(_)
jsonEscape(text) ==
    IF text = <<>> THEN <<>>
    ELSE (IF Head(text) = Quote THEN <<Backslash, Quote>>
          ELSE IF Head(text) = Backslash THEN <<Backslash, Backslash>>
          ELSE IF Head(text) = Newline THEN <<Backslash, "n">>
          ELSE <<Head(text)>>) \o jsonEscape(Tail(text))

jsonStringify(text) == <<Quote>> \o jsonEscape(text) \o <<Quote>>

\* .replace(/'/g, "\\'")
RECURSIVE escapeApostrophes(_)
escapeApostrophes(text) ==
    IF text = <<>> THEN <<>>
    ELSE (IF Head(text) = Apostrophe THEN <<Backslash, Apostrophe>> ELSE <<Head(text)>>)
            \o escapeApostrophes(Tail(text))

\* the characters between the apostrophes of  JSON.parse('...')  in the script
embeddedLiteral(payload) == escapeApostrophes(jsonStringify(payload))

\* the string value of a single-quoted JavaScript literal with the given
\* characters: \n is a newline, a backslash before any other character of
\* the model yields that character; with a raw newline or a raw apostrophe
\* inside it the script does not parse
RECURSIVE literalValue(_)
literalValue(chars) ==
    IF chars = <<>> THEN <<>>
    ELSE IF Head(chars) \in {Newline, Apostrophe} THEN SyntaxError
    ELSE IF Head(chars) = Backslash
    THEN IF Len(chars) = 1 THEN SyntaxError
         ELSE LET rest == literalValue(SubSeq(chars, 3, Len(chars)))
                  c == IF chars[2] = "n" THEN Newline ELSE chars[2]
              IN IF rest = SyntaxError THEN SyntaxError ELSE <<c>> \o rest
    ELSE LET rest == literalValue(Tail(chars))
         IN IF rest = SyntaxError THEN SyntaxError ELSE <<Head(chars)>> \o rest

\* the characters of a JSON string body up to its closing quote: escapes
\* \" \\ \n are decoded, any other escape and a raw newline are errors
RECURSIVE jsonStringBody(_)
jsonStringBody(chars) ==
    IF chars = <<>> THEN SyntaxError
    ELSE IF Head(chars) = Quote
    THEN IF Len(chars) = 1 THEN <<>> ELSE SyntaxError
    ELSE IF Head(chars) = Newline THEN SyntaxError
    ELSE IF Head(chars) = Backslash
    THEN IF Len(chars) = 1 \/ chars[2] \notin {Quote, Backslash, "n"} THEN SyntaxError
         ELSE LET rest == jsonStringBody(SubSeq(chars, 3, Len(chars)))
                  c == IF chars[2] = "n" THEN Newline ELSE chars[2]
              IN IF rest = SyntaxError THEN SyntaxError ELSE <<c>> \o rest
    ELSE LET rest == jsonStringBody(Tail(chars))
         IN IF rest = SyntaxError THEN SyntaxError ELSE <<Head(chars)>> \o rest

\* JSON.parse of a text that should be one string value
jsonParse(text) ==
    IF text = SyntaxError \/ text = <<>> \/ Head(text) # Quote THEN SyntaxError
    ELSE jsonStringBody(Tail(text))

\* const input = JSON.parse('<embedded literal>') in the script
receivedInput(payload) == jsonParse(literalValue(embeddedLiteral(payload)))

\* an invocation with the payload: what the entry point is called with
EmbedInput(payload) ==
    /\ probe.kind = "none"
    /\ probe' = [NoProbe EXCEPT !.kind = "input", !.payload = payload,
                                !.literal = embeddedLiteral(payload),
                                !.received = receivedInput(payload)]
    /\ UNCHANGED <<ctl, now, schedVars, storeVars, scripts, invs>>

\* one evaluation per behaviour
InputNext == probe.kind = "none" /\ \E payload \in Payloads : EmbedInput(payload)

InputSpec == Init /\ [][InputNext]_vars

\* ================================================================ claims
\* the record the routes address for an id: the first one carrying it
RecordOf(scheduleId) == schedulesFile[findIndex(schedulesFile, scheduleId)]
Persisted(scheduleId) == findIndex(schedulesFile, scheduleId) # 0
Quiescent == ctl = "running" /\ route.op = "idle"

\* C1: after any sequence of completed scheduler operations the ids that hold
\* a live timer in the registry are exactly the ids of the persisted records
\* whose active flag is true.
C1_RegistryEqualsPersistedActive ==
    Quiescent => DOMAIN activeSchedules = PersistedActive

\* C2: at every state, also between the steps of one mutation and after a
\* failed write of the schedules file, every id with an armed timer has a
\* persisted record with active = true.
C2_ArmedOnlyIfPersistedActive ==
    ctl = "running" => DOMAIN activeSchedules \subseteq PersistedActive

\* C3: for a persisted schedule with a valid cron expression, the activate
\* operation followed by the deactivate operation leaves no timer for the id
\* in the registry and the schedule's persisted active flag false.
C3_ActivateThenDeactivate ==
    (Quiescent /\ route.tag = "actdeact" /\ Persisted(route.id)
       /\ cronValidate(RecordOf(route.id).cronExpression))
    => /\ route.id \notin DOMAIN activeSchedules
       /\ ~RecordOf(route.id).active

\* C4: the initialization step on an empty registry arms a timer for exactly
\* the persisted schedules whose active flag is true, and for no other.
C4_InitArmsPersistedActive ==
    [][(ctl # "running" /\ ctl' = "running")
         => DOMAIN activeSchedules' = PersistedActive']_vars

\* slot i received its result in this step (the Promise of its invocation
\* settled, or executeFunction returned the result at once)
Delivered(i) ==
    /\ invs'[i] # invs[i]
    /\ invs'[i].result # NoResult
    /\ invs[i].result = NoResult \/ Available(i)

SchedulerUntouched ==
    /\ activeSchedules' = activeSchedules
    /\ timers' = timers
    /\ schedulesFile' = schedulesFile

TickStarted(i) ==
    /\ Available(i)
    /\ invs'[i] # invs[i]
    /\ invs'[i].origin # NoOrigin
    /\ invs'[i].fn # ""

\* C6: deleting a function changes neither the schedules file nor the timer
\* registry; a tick of a schedule whose function has no file ends at once
\* with the result (exit code 1, function not found), spawns nothing, and no
\* exception leaves the tick callback.
C6_TickOfDeletedFunction ==
    [][/\ (fnJs' # fnJs /\ fnJs' \subseteq fnJs) => SchedulerUntouched
       /\ \A i \in InvIds :
            (TickStarted(i) /\ invs'[i].fn \notin (fnJs \cup fnTs))
            => /\ invs'[i].result = NotFoundResult
               /\ invs'[i].st = "done"
               /\ invs'[i].child = "none"
               /\ scripts' = scripts
               /\ ctl' = "running"
               /\ SchedulerUntouched]_vars

\* a schedule ticked successfully, its function was deleted, and its next
\* tick ended with function not found while its timer is still registered
C6_Witness ==
    \E i, j \in InvIds :
       /\ invs[i].origin # NoOrigin /\ invs[j].origin = invs[i].origin
       /\ invs[i].result.exitCode = 0 /\ invs[i].child = "closed"
       /\ invs[j].result = NotFoundResult /\ invs[j].fn \notin fnJs
       /\ invs[i].origin \in DOMAIN activeSchedules

C7_State ==
    \A i \in InvIds :
       /\ invs[i].timedOut =>
             /\ invs[i].result = TimeoutResult
             /\ invs[i].child \in {"exited", "closed"}
             /\ ~invs[i].timeoutArmed
       /\ invs[i].child = "closed" =>
             /\ invs[i].result # NoResult
             /\ ~invs[i].timeoutArmed
             /\ ~invs[i].timedOut => invs[i].result.exitCode # 124

C7_Step ==
    \A i \in InvIds :
       (invs[i].st = "pending" /\ invs[i].result # NoResult /\ invs'[i].st # "free")
       => invs'[i].result = invs[i].result

C8_ScriptGoneAtDelivery ==
    [][\A i \in InvIds :
         (Delivered(i) /\ invs[i].st = "pending")
         => scripts'[tmpScriptPath(invs[i].fn)] = NoScript]_vars

\* C9: each child runs with the input payload of its own invocation, under
\* every interleaving of two overlapping invocations of one function.
C9_ChildRunsOwnInput ==
    \A i \in InvIds :
       invs[i].childInput # NoInput => invs[i].childInput = invs[i].input

\* C10: no sequence of invocations and ticks raises an uncaught exception in
\* the controller.
C10_NoUncaughtException == ctl # "crashed"

InFlight(i) == invs[i].st = "pending"

C11_State ==
    \A i, j \in InvIds :
       (InFlight(i) /\ InFlight(j) /\ invs[i].fn # invs[j].fn)
       => tmpScriptPath(invs[i].fn) # tmpScriptPath(invs[j].fn)

C11_Step ==
    \A i \in InvIds :
       (InFlight(i) /\ invs'[i] = invs[i]
          /\ scripts'[tmpScriptPath(invs[i].fn)] # scripts[tmpScriptPath(invs[i].fn)])
       => \E j \in InvIds \ {i} :
             /\ invs'[j] # invs[j]
             /\ invs[j].fn = invs[i].fn \/ invs'[j].fn = invs[i].fn

\* C11: overlapping invocations of two functions with different names never
\* write, execute or delete the same bootstrap script path: their paths
\* differ, and the script at the path of an invocation in flight is written
\* or deleted only by an invocation of the same function name.
C11_DifferentNamesDifferentPaths == []C11_State /\ [][C11_Step]_vars

\* invocations of f and of g overlap and each child has loaded the script
\* with its own payload
C11_Witness ==
    \E i, j \in InvIds :
       /\ invs[i].fn = "f" /\ invs[j].fn = "g"
       /\ invs[i].child = "loaded" /\ invs[j].child = "loaded"
       /\ invs[i].input = "a" /\ invs[i].childInput = "a"
       /\ invs[j].input = "b" /\ invs[j].childInput = "b"

\* C12: if the child runtime cannot be spawned, the invocation resolves with
\* an execution error result (exit code 1, non-empty error text), nothing is
\* thrown and the controller keeps running.
C12_SpawnFailureIsResult ==
    [][\A i \in InvIds :
         (invs[i].child = "failed" /\ invs'[i] # invs[i])
         => /\ invs'[i].result.exitCode = 1
            /\ invs'[i].result.error # ""
            /\ ctl' = "running"]_vars

\* a new invocation was put into slot i in this step
Started(i) ==
    /\ Available(i)
    /\ invs'[i] # invs[i]
    /\ invs'[i].fn # ""

\* executeFunction resumed in slot i after the compiler in this step
Resumed(i) ==
    /\ invs[i].st = "compiled"
    /\ invs'[i].st # "compiled"
    /\ ctl' = "running"

ErrorResultNoChild(i) ==
    /\ invs'[i].st = "done"
    /\ invs'[i].result.exitCode = 1
    /\ invs'[i].result.error # ""
    /\ invs'[i].child = "none"
    /\ ~invs'[i].timeoutArmed
    /\ scripts' = scripts

\* C13: when no source file of the named function exists the invocation
\* returns at once a result with exit code 1 and the error text, and so does
\* it when the on-demand compilation of the source fails; in both cases no
\* child is spawned and no bootstrap script is written.
C13_MissingOrUncompilable ==
    [][\A i \in InvIds :
         /\ (Started(i) /\ invs'[i].fn \notin (fnJs \cup fnTs))
            => (ErrorResultNoChild(i) /\ invs'[i].result = NotFoundResult)
         /\ (Resumed(i) /\ invs[i].code # 0)
            => (ErrorResultNoChild(i) /\ invs'[i].result = CompileFailedResult)]_vars

\* one invocation ended with function not found, another with the failed
\* compilation, and no script was left behind
C13_Witness ==
    \E i, j \in InvIds :
       /\ invs[i].st = "done" /\ invs[i].result = NotFoundResult
       /\ invs[j].st = "done" /\ invs[j].result = CompileFailedResult
       /\ \A p \in ScriptPaths : scripts[p] = NoScript

\* the close listener of slot i delivers the result in this step, the
\* timeout not having fired
ClosedFirst(i) ==
    /\ InFlight(i)
    /\ invs[i].child = "exited"
    /\ invs[i].result = NoResult
    /\ invs'[i].child = "closed"

\* C14: when the child closes before the timeout the reported exit code is
\* the child's real exit status: a non-zero code passes through unchanged
\* and 0 is reported only for a child that ended normally with code 0, not
\* for one that a signal ended.
C14_ExitCodeIsRealStatus ==
    [][\A i \in InvIds :
         ClosedFirst(i)
         => /\ invs[i].code # NullCode => invs'[i].result.exitCode = invs[i].code
            /\ invs'[i].result.exitCode = 0 => invs[i].code = 0]_vars

\* C15: for a function whose entry point returns a value V and finishes
\* before the timeout, the invocation yields exit code 0 and a result field
\* that is the decoded value V, not its text (the function of the model
\* returns the input its child was given).
C15_ResultIsDecodedValue ==
    [][\A i \in InvIds :
         (ClosedFirst(i) /\ invs[i].code = 0 /\ invs[i].childInput # NoInput)
         => /\ invs'[i].result.exitCode = 0
            /\ invs'[i].result.result = invs[i].childInput]_vars

\* C16: for every variable name the value in the child's environment is the
\* persisted per-function value if one is defined, otherwise the
\* caller-supplied value if one is defined, otherwise the controller's
\* process value.
C16_FunctionEnvWins ==
    probe.kind = "env"
    => \A n \in EnvNames :
          probe.env[n] = IF probe.fn[n] # Undef THEN probe.fn[n]
                         ELSE IF probe.caller[n] # Undef THEN probe.caller[n]
                         ELSE probe.proc[n]

\* C17: the entry point run is the first of default, handler, main that is
\* present and is a function; a candidate that is present but no function
\* is skipped; with no function among the three the invocation ends as an
\* execution error.
C17_FirstFunctionWins ==
    probe.kind = "entry"
    => probe.entry = IF probe.module.default = "function" THEN "default"
                     ELSE IF probe.module.handler = "function" THEN "handler"
                     ELSE IF probe.module.main = "function" THEN "main"
                     ELSE "error"

\* the files of function f
FilesOf(f) ==
    [js |-> f \in fnJs, ts |-> f \in fnTs, dist |-> f \in distJs, env |-> f \in fnEnvFile]

\* C18: deleteFunction(name) removes the source file, the compiled output
\* and the environment file of the function and leaves the files of every
\* other function unchanged.
C18_DeleteRemovesAllFiles ==
    [][\A f \in FnNames :
         (/\ uploads' = uploads
          /\ f \in (fnJs \cup fnTs \cup distJs)
          /\ f \notin (fnJs' \cup fnTs' \cup distJs'))
         => /\ f \notin fnEnvFile'
            /\ \A g \in FnNames \ {f} : FilesOf(g)' = FilesOf(g)]_vars

\* C19: after any sequence of uploads and deletes every function name has
\* at most one source file, the .js or the .ts and never both (the store
\* holds at most one compiled output per name by its path); names with an
\* upload still under way are left out.
C19_OneSourcePerName ==
    \A f \in FnNames :
       uploads[f].st \notin {"compiling", "compiled", "installing"}
          => ~(f \in fnJs /\ f \in fnTs)

\* C20: when the compilation of an uploaded .ts source fails the upload is
\* rejected with the compiler's diagnostic text, the uploaded source file is
\* removed from the store and no dependency installation is started.
C20_FailedCompileRollsBack ==
    [][\A f \in FnNames :
         (uploads[f].st = "compiled" /\ ~uploads[f].compiled /\ uploads'[f].st = "done")
         => /\ uploads'[f].status = 400
            /\ uploads'[f].details = CompileDiag
            /\ f \notin fnTs'
            /\ ~uploads'[f].install]_vars

\* C21: reading back the .env file that saveFunctionEnv wrote for a map
\* whose keys hold no "=" and whose values hold no newline yields that map.
C21_EnvRoundTrip ==
    probe.kind = "envfile" => probe.loaded = MapOf(probe.saved)

C23_InstallFailureNotFatal ==
    [][\A f \in FnNames :
         (/\ uploads[f].st # "done"
          /\ uploads'[f].st = "done"
          /\ uploads'[f].install
          /\ ~uploads'[f].installOk)
         => /\ uploads'[f].status = 200
            /\ uploads'[f].installError \in {PrepError, NpmFailed, NpmNotExecuted}
            /\ f \in fnJs => f \in fnJs'
            /\ f \in fnTs => f \in fnTs'
            /\ f \in distJs => f \in distJs'
            /\ (uploads'[f].ext = "js" /\ uploads[f].st # "installing") => f \in fnJs'
            /\ f \in (fnJs' \cup fnTs')
               => \A x \in Inputs :
                     executeFunction(f, x, NoOrigin, TRUE)'.inv.st # "done"]_vars

\* an upload answered 200 with a failed installation and its source stored
C23_Witness ==
    \E f \in FnNames :
       /\ uploads[f].st = "done"
       /\ uploads[f].install
       /\ ~uploads[f].installOk
       /\ uploads[f].installError = NpmFailed
       /\ uploads[f].status = 200
       /\ f \in (fnJs \cup fnTs)

\* the modules of the Node.js standard library among the specifiers
StdLib == {StdFs, StdPath, StdAssert, NodeFs}

\* the package a specifier imports: @scope/name or the first segment
PackageOf(spec) ==
    LET parts == split(spec, "/")
    IN IF startsWith(spec, "@") /\ Len(parts) >= 2
       THEN parts[1] \o <<"/">> \o parts[2]
       ELSE Head(parts)

\* the specifier names a package: no path and no standard-library module
ImportsPackage(spec) ==
    /\ ~startsWith(spec, ".")
    /\ ~startsWith(spec, "/")
    /\ PackageOf(spec) \notin StdLib

\* C24: in the result of extractDependencies a package named in the
\* @dependencies manifest has the manifest's version even when it is also
\* imported, an imported package that is not in the manifest has version
\* "latest", and no key is a standard-library module name or comes from a
\* relative or path-based import.
C24_ExtractDependencies ==
    probe.kind = "deps" =>
       LET code == probe.code
           result == probe.dependencies
           declared == manifestDependencies(code)
       IN /\ \A pkg \in DOMAIN declared :
                pkg \in DOMAIN result /\ result[pkg] = declared[pkg]
          /\ \A s \in code.statements :
                (ImportsPackage(s.spec) /\ PackageOf(s.spec) \notin DOMAIN declared)
                => /\ PackageOf(s.spec) \in DOMAIN result
                   /\ result[PackageOf(s.spec)] = Latest
          /\ \A name \in DOMAIN result :
                /\ name \notin StdLib
                /\ name # <<>>
                /\ ~startsWith(name, ".")
                /\ ~startsWith(name, "/")

\* C25: a schedule with a malformed cron expression is rejected before any
\* registration: no timer runs on a malformed expression and no persisted
\* record that is active carries one.
C25_MalformedCronRejected ==
    /\ \A t \in DOMAIN timers : cronValidate(timers[t].cronExpression)
    /\ \A k \in 1..Len(schedulesFile) :
          schedulesFile[k].active => cronValidate(schedulesFile[k].cronExpression)

\* the schedules activateSchedule can be called with for a registered id
RegisteredSchedules ==
    {[id |-> j] @@ b : j \in DOMAIN activeSchedules, b \in SchedBodies}

\* C26: activateSchedule on a schedule whose id is already in the registry
\* is a no-op: it creates no second timer, leaves the registry (and the
\* schedules file) unchanged and reports success.
C26_State ==
    \A s \in RegisteredSchedules :
       activateSchedule(activeSchedules, timers, s)
          = [reg |-> activeSchedules, tms |-> timers, ok |-> TRUE]

C26_Step ==
    \A j \in Ids :
       (/\ Ready
        /\ j \in DOMAIN activeSchedules
        /\ route' = [op |-> "activate", id |-> j, tag |-> "armed"])
       => /\ activeSchedules' = activeSchedules
          /\ timers' = timers
          /\ schedulesFile' = schedulesFile

C26_ActivateArmedIsNoOp == []C26_State /\ [][C26_Step]_vars

\* activateSchedule has been called from the activate route for an id that
\* was in the registry, and has reported success
C26_Witness ==
    /\ route.op = "activate"
    /\ route.tag = "armed"
    /\ route.id \in DOMAIN activeSchedules
    /\ Cardinality(DOMAIN timers) = Cardinality(DOMAIN activeSchedules)

\* C27: deactivation is idempotent: once the deactivate operation of a
\* persisted schedule has completed, whether or not a timer was armed for
\* it, no error has been raised, the id is not in the registry and the
\* persisted active flag is false.
C27_DeactivateIdempotent ==
    (Quiescent /\ route.tag \in {"deact", "actdeact"} /\ Persisted(route.id))
    => /\ resp = 200
       /\ route.id \notin DOMAIN activeSchedules
       /\ ~RecordOf(route.id).active

\* schedules' is schedules with one record appended
IsAppend(schedules, after) ==
    /\ Len(after) = Len(schedules) + 1
    /\ SubSeq(after, 1, Len(schedules)) = schedules

\* after is schedules with exactly one record replaced in place
IsReplace(schedules, after) ==
    /\ Len(after) = Len(schedules)
    /\ \E k \in 1..Len(schedules) :
          \A n \in 1..Len(schedules) : n # k => after[n] = schedules[n]

\* after is schedules without the records of one id
IsRemove(schedules, after) ==
    \E j \in Ids : after = filterOut(schedules, j) /\ after # schedules

\* C28: the schedules file is an ordered list, created empty by
\* initScheduler when absent; a step that changes it appends one record
\* after all existing ones (addSchedule, answered 201), or replaces one
\* record in place or removes the records of one id (updateSchedule,
\* deleteSchedule), and every other record keeps its content and position.
C28_State == ~fileExists => schedulesFile = <<>>

C28_Step ==
    /\ (~fileExists /\ fileExists' /\ ctl # "running") => schedulesFile' = <<>>
    /\ (ctl = "running" /\ schedulesFile' # schedulesFile)
       => IF resp' = 201
          THEN IsAppend(schedulesFile, schedulesFile')
          ELSE \/ IsReplace(schedulesFile, schedulesFile')
               \/ IsRemove(schedulesFile, schedulesFile')

C28_FileIsOrderedList == []C28_State /\ [][C28_Step]_vars

\* C29: the ids of the persisted records are pairwise distinct.
C29_IdsDistinct ==
    \A k, n \in 1..Len(schedulesFile) :
       k # n => schedulesFile[k].id # schedulesFile[n].id

\* C30: when the write of the schedules file fails during add, update or
\* delete, no timer is armed for the record that was not written: a timer
\* that a completed request has created or replaced runs on a record the
\* file holds.
C30_NoTimerForUnwrittenRecord ==
    [][(ctl = "running" /\ route'.op = "idle")
       => \A t \in DOMAIN timers' :
             (t \notin DOMAIN timers \/ timers'[t] # timers[t])
             => timers'[t] \in SeqToSet(schedulesFile')]_vars

\* C31: executeFunction uses the .js source when it exists, and starts the
\* on-demand compilation only when the .ts source exists and no compiled
\* output exists yet: an invocation of a function that already has a
\* compiled output starts no compiler.
C31_CompileOnlyWhenNoOutput ==
    [][\A i \in InvIds :
         Started(i)
         => /\ invs'[i].fn \in fnJs => invs'[i].st = "pending"
            /\ invs'[i].st = "compiling"
               => (invs'[i].fn \in fnTs /\ invs'[i].fn \notin distJs)]_vars

\* C32: the result recovered from the child's output is the value the
\* entry point returned (its JSON text), whatever lines the user code logs:
\* it is what is recovered when nothing is logged, also when a log line is
\* a sentinel marker.
C32_ResultUnaffectedByLogs ==
    probe.kind = "output"
    => /\ probe.result = <<probe.value>>
       /\ probe.result = functionResult(wrapperOutput(<<>>, probe.value))

\* C33: for every input payload, also one with apostrophes, quotes,
\* backslashes or newlines, the value the entry point receives is the
\* payload given to the invocation.
C33_InputReceivedUnchanged ==
    probe.kind = "input" => probe.received = probe.payload

\* ------------------------------------------- ticks of re-armed schedules
\* schedules of function f with a valid expression are created and then
\* patched (function name, input, active flag) while their timers tick; the
\* functions are not uploaded, so every invocation returns at once
RetimeBodies == {x \in SchedBodies : x.cronExpression = ValidCron}
RetimeUpdates == {x \in Updates : DOMAIN x \subseteq {"functionName", "input", "active"}}

RetimeNext ==
    \/ Boot(TRUE)
    \/ ClockTick
    \/ \E s \in RetimeBodies, writeOk \in BOOLEAN : RouteCreate(s, TRUE, writeOk)
    \/ \E j \in Ids, u \in RetimeUpdates, writeOk \in BOOLEAN :
          RouteUpdate(j, u, TRUE, writeOk)
    \/ \E t \in DOMAIN timers : Tick(t, TRUE)

RetimeSpec == Init /\ [][RetimeNext]_vars

\* the schedules file holds a record of the id with the function name and
\* the input of invocation inv
PersistedAs(inv) ==
    \E k \in 1..Len(schedulesFile) :
       /\ schedulesFile[k].id = inv.origin
       /\ schedulesFile[k].functionName = inv.fn
       /\ schedulesFile[k].input = inv.input

\* C34: every tick of a schedule invokes the engine with the function name
\* and the input that a persisted record of the schedule's id holds at the
\* time of the tick, so that no tick after an updateSchedule uses the values
\* from before it.
C34_TickUsesPersistedRecord ==
    [][\A i \in InvIds :
         (Started(i) /\ invs'[i].origin # NoOrigin) => PersistedAs(invs'[i])]_vars

\* ------------------------------------------- stopping armed schedules
\* schedules of an uploaded function are created, ticked, deactivated,
\* activated again and deleted while their invocations are in flight; the
\* schedules file is read without faults, the writes of the delete and of
\* the deactivate route may fail; the ticks come one at a time, each after
\* the invocation of the one before has ended
NoneInFlight == \A i \in InvIds : invs[i].st # "pending"

StopNext ==
    \/ Boot(TRUE)
    \/ ClockTick
    \/ \E s \in RetimeBodies : RouteCreate(s, TRUE, TRUE)
    \/ \E j \in Ids, writeOk \in BOOLEAN : RouteDelete(j, TRUE, writeOk)
    \/ \E j \in Ids : RouteActivate(j, TRUE)
    \/ RouteActivateUpdate(TRUE, TRUE)
    \/ \E j \in Ids : RouteDeactivate(j)
    \/ \E writeOk \in BOOLEAN : RouteDeactivateUpdate(TRUE, writeOk)
    \/ Upload("f")
    \/ NoneInFlight /\ \E t \in DOMAIN timers : Tick(t, TRUE)
    \/ \E i \in InvIds : ChildSignal(i)
    \/ \E i \in InvIds : Close(i)

StopSpec == Init /\ [][StopNext]_vars

\* deleteSchedule(scheduleId) returns true in this step: the records of the
\* id are taken out of the file and the route answers 200
DeleteSucceeded(scheduleId) ==
    /\ ctl = "running" /\ ctl' = "running"
    /\ route.op = "idle" /\ route'.op = "idle"
    /\ resp' = 200
    /\ schedulesFile' # schedulesFile
    /\ schedulesFile' = filterOut(schedulesFile, scheduleId)

\* the deactivate route of scheduleId stops the timer, or completes, in this
\* step
DeactivateSucceeded(scheduleId) ==
    /\ ctl = "running" /\ ctl' = "running"
    /\ \/ route.op = "idle" /\ route'.op = "deactivate" /\ route'.id = scheduleId
       \/ route.op = "deactivate" /\ route.id = scheduleId /\ route'.op = "idle"

\* a running timer of scheduleId is in the registry
Armed(reg, tms, scheduleId) ==
    /\ scheduleId \in DOMAIN reg
    /\ reg[scheduleId] \in DOMAIN tms

\* the invocations in flight go on as they are
InFlightUntouched ==
    \A i \in InvIds : invs[i].st = "pending" => invs'[i] = invs[i]

\* C35: a successful deleteSchedule or deactivate of an id leaves no timer
\* of the id, every tick that starts an invocation comes from a timer that
\* is armed at that moment, and an id gets armed only by activateSchedule
\* (inside a route or initScheduler), never by a step of the engine; so no
\* tick starts an invocation for the id until it is activated again.  The
\* step that stops the timer changes no invocation in flight.
C35_NoTickAfterStop ==
    [][/\ \A i \in InvIds :
             TickStarted(i) => Armed(activeSchedules, timers, invs'[i].origin)
       /\ \A j \in Ids :
             (DeleteSucceeded(j) \/ DeactivateSucceeded(j))
             => /\ j \notin DOMAIN activeSchedules'
                /\ \A t \in DOMAIN timers' : timers'[t].id # j
                /\ InFlightUntouched
       /\ \A j \in Ids :
             (~Armed(activeSchedules, timers, j) /\ Armed(activeSchedules', timers', j))
             => (invs' = invs \/ ctl # "running")]_vars

\* the timer of a schedule was stopped by the deactivate route while an
\* invocation one of its ticks started is still in flight
C35_Witness ==
    \E i \in InvIds :
       /\ invs[i].st = "pending"
       /\ invs[i].origin # NoOrigin
       /\ invs[i].origin \notin DOMAIN activeSchedules
       /\ route.tag = "deact" /\ route.id = invs[i].origin /\ resp = 200

\* ------------------------------------------- the engine with its timers
\* ExecSpec with the scheduling of the event loop: a timeout that is armed
\* fires, and the close event of a child that has exited is delivered; a
\* child is not required to exit
LiveSpec ==
    /\ Init
    /\ [][ExecNext]_vars
    /\ \A i \in InvIds : WF_vars(Timeout(i)) /\ WF_vars(Close(i))

\* C36: every invocation that spawned a child eventually delivers a result,
\* by the close of the child or by the timeout, also when the child never
\* exits by itself.
C36_SpawnedDelivers ==
    \A i \in InvIds :
       (invs[i].st = "pending" /\ invs[i].child = "spawned")
       ~> (invs[i].result # NoResult)

\* no record of the id is in the schedules file
NotPersisted(scheduleId) == findIndex(schedulesFile, scheduleId) = 0

\* the outcome r of an operation: not found, file and registry as before
NotFoundNoEffect(r) ==
    /\ ~r.found
    /\ r.file = schedulesFile /\ r.exists = fileExists
    /\ r.reg = activeSchedules /\ r.tms = timers

\* C37: on an id that has no persisted record, updateSchedule and
\* deleteSchedule report not-found and leave the schedules file and the
\* timer registry unchanged, whatever the update and whether the file can
\* be read and written or not.
C37_NotFoundLeavesAllUnchanged ==
    (ctl = "running" /\ route.op = "idle")
    => \A j \in Ids :
          NotPersisted(j)
          => \A readOk, writeOk \in BOOLEAN :
                /\ \A u \in Updates :
                      NotFoundNoEffect(updateSchedule(activeSchedules, timers, j, u,
                                                      readOk, writeOk))
                /\ NotFoundNoEffect(deleteSchedule(j, readOk, writeOk))

\* every record of the schedules file is in the file of outcome r
RecordsKept(r) == SeqToSet(schedulesFile) \subseteq SeqToSet(r.file)

\* C38: a failed read of the schedules file never destroys persisted
\* records: when the read inside addSchedule, updateSchedule or
\* deleteSchedule fails, the records that were in the file before the
\* operation are still in it afterwards.
C38_FailedReadKeepsRecords ==
    (ctl = "running" /\ route.op = "idle")
    => \A writeOk \in BOOLEAN :
          /\ \A s \in NewSchedules : RecordsKept(addSchedule(s, FALSE, writeOk))
          /\ \A j \in Ids, u \in Updates :
                RecordsKept(updateSchedule(activeSchedules, timers, j, u, FALSE, writeOk))
          /\ \A j \in Ids : RecordsKept(deleteSchedule(j, FALSE, writeOk))

\* ------------------------------------------- the registry and its timers
\* every operation of the scheduler on schedules with a valid expression and
\* a working disk; a PATCH changes the active flag or the id
RegUpdates == {x \in Updates : DOMAIN x \subseteq {"active", "id"}}

RegNext ==
    \/ Boot(TRUE)
    \/ ClockTick
    \/ \E s \in RetimeBodies : RouteCreate(s, TRUE, TRUE)
    \/ \E j \in Ids, u \in RegUpdates : RouteUpdate(j, u, TRUE, TRUE)
    \/ \E j \in Ids : RouteDelete(j, TRUE, TRUE)
    \/ \E j \in Ids : RouteActivate(j, TRUE)
    \/ RouteActivateUpdate(TRUE, TRUE)
    \/ \E j \in Ids : RouteDeactivate(j)
    \/ RouteDeactivateUpdate(TRUE, TRUE)

RegSpec == Init /\ [][RegNext]_vars

\* C39: at every reachable state every running timer is the one the
\* registry holds under the id of its schedule, so there is at most one
\* running timer per schedule id and every timer that was created and is
\* not in the registry has been stopped.
C39_RegistryReachesEveryTimer ==
    /\ \A t \in DOMAIN timers :
          /\ timers[t].id \in DOMAIN activeSchedules
          /\ activeSchedules[timers[t].id] = t
    /\ \A t1, t2 \in DOMAIN timers : timers[t1].id = timers[t2].id => t1 = t2

\* the first timer that was created has been stopped and the second one
\* runs, held by the registry
C39_Witness ==
    /\ DOMAIN timers = {2}
    /\ \E j \in Ids : DOMAIN activeSchedules = {j} /\ activeSchedules[j] = 2

====
